---------------------------- MODULE Spec2Model ----------------------------
(***************************************************************************)
(* Model of library/ydiff.py: the YdiffDict class (normalisation, pruning  *)
(* by ignore keys, pruning of empty keys) and the main() flow that diffs   *)
(* two YAML inputs.                                                        *)
(*                                                                         *)
(* Python values are records [t |-> type, v |-> payload].  For a scalar    *)
(* the payload is the text str() returns for it, so that str(obj) is a     *)
(* retagging.  A list carries a sequence, a dict a function from its keys  *)
(* to its values (equality of Python dicts ignores order).  An uncaught    *)
(* exception is the value Raised(name).                                    *)
(*                                                                         *)
(* YAML text is carried as the node tree the text denotes: a plain or a    *)
(* quoted scalar, a block sequence, a block mapping.  yaml.load resolves   *)
(* plain scalars as PyYAML does, yaml.dump chooses the scalar style as     *)
(* PyYAML does and sorts mapping keys, so two dumps are the same text      *)
(* exactly when they are the same node tree.                               *)
(*                                                                         *)
(* The iteration semantics are those of Python 2, which the module is      *)
(* written for (dict.items() is a snapshot list, line 350).                *)
(***************************************************************************)
EXTENDS Integers, Sequences, FiniteSets, TLC

VARIABLES
    pc,            \* position in the flow of the specification at hand
    params,        \* main: module.params
    string,        \* __yaml_str_to_dict: the YAML text handed in
    obj,           \* __yaml_str_to_dict: the value yaml.load returned
    once,          \* __normalize(obj)
    twice,         \* __normalize(__normalize(obj))
    decoded,       \* the value __yaml_str_to_dict returned
    src_dict,      \* del_ignore_keys: first argument
    del_dict,      \* del_ignore_keys: second argument
    result_dict,   \* del_ignore_keys(src_dict, del_dict)
    result_again,  \* del_ignore_keys(result_dict, del_dict)
    empty_obj,     \* del_empty_keys: argument
    empty_ret,     \* del_empty_keys(empty_obj)
    source,        \* main: local 'source'
    target,        \* main: local 'target'
    ignore_keys,   \* main: local 'ignore_keys'
    ignore_empty,  \* main: local 'ignore_empty'
    result         \* main: the dict handed to module.exit_json

vars == << pc, params, string, obj, once, twice, decoded, src_dict, del_dict,
           result_dict, result_again, empty_obj, empty_ret,
           source, target, ignore_keys, ignore_empty, result >>

normVars  == << string, obj, once, twice, decoded >>
pruneVars == << src_dict, del_dict, result_dict, result_again >>
emptyVars == << empty_obj, empty_ret >>
mainVars  == << params, source, target, ignore_keys, ignore_empty, result >>

-----------------------------------------------------------------------------
(* Python values *)

PyNone     == [t |-> "none", v |-> "None"]
PyStr(s)   == [t |-> "str",  v |-> s]
PyInt(s)   == [t |-> "int",  v |-> s]
PyBool(s)  == [t |-> "bool", v |-> s]
PyList(q)  == [t |-> "list", v |-> q]
PyDict(f)  == [t |-> "dict", v |-> f]
Raised(e)  == [t |-> "raised", v |-> e]
Unset      == [t |-> "unset", v |-> ""]

NoResult == [changed |-> FALSE, before |-> Unset, after |-> Unset]
NoParams == [source |-> Unset, target |-> Unset,
             diff_ignore_keys |-> Unset, diff_ignore_empty |-> FALSE]

EmptyDict  == PyDict([k \in {} |-> PyNone])
EmptyList  == PyList(<< >>)

IsDict(x)  == x.t = "dict"
IsList(x)  == x.t = "list"
IsDictOrList(x) == x.t \in {"dict", "list"}
IsRaised(x) == x.t = "raised"

\* all sequences over S of length at most n, all functions from a subset of K to S
SeqsUpTo(S, n) == UNION {[1..k -> S] : k \in 0..n}
FuncsOn(K, S)  == UNION {[D -> S] : D \in SUBSET K}

-----------------------------------------------------------------------------
(* YAML text, as the node tree it denotes *)

Plain(s)   == [t |-> "plain",  v |-> s]
Quoted(s)  == [t |-> "quoted", v |-> s]
YSeq(q)    == [t |-> "seq",    v |-> q]
YMap(f)    == [t |-> "map",    v |-> f]

\* PyYAML's implicit resolver on a plain scalar (YAML 1.1 null, bool, int)
YamlNullTexts == {"", "~", "null", "Null", "NULL"}
YamlTrueTexts == {"true", "True", "TRUE", "yes", "Yes", "YES", "on", "On", "ON"}
YamlFalseTexts == {"false", "False", "FALSE", "no", "No", "NO", "off", "Off", "OFF"}
YamlIntTexts == {"0", "1", "2", "3", "4", "5", "6", "7", "8", "9"}
\* texts that start with a flow indicator and cannot be written plain
YamlIndicatorTexts == {"[]", "{}"}

Resolve(s) ==
    IF s \in YamlNullTexts THEN PyNone
    ELSE IF s \in YamlTrueTexts THEN PyBool("True")
    ELSE IF s \in YamlFalseTexts THEN PyBool("False")
    ELSE IF s \in YamlIntTexts THEN PyInt(s)
    ELSE PyStr(s)

RECURSIVE yaml_load(_)
yaml_load(node) ==
    CASE node.t = "plain"  -> Resolve(node.v)
      [] node.t = "quoted" -> PyStr(node.v)
      [] node.t = "seq"    -> PyList([i \in DOMAIN node.v |-> yaml_load(node.v[i])])
      [] node.t = "map"    ->
            PyDict([k \in {yaml_load(n) : n \in DOMAIN node.v} |->
                      yaml_load(node.v[CHOOSE n \in DOMAIN node.v : yaml_load(n) = k])])

\* the scalar node PyYAML's representer and emitter choose for a str
StrNode(s) ==
    IF Resolve(s).t # "str" \/ s \in YamlIndicatorTexts THEN Quoted(s) ELSE Plain(s)

RECURSIVE yaml_dump(_)
yaml_dump(x) ==
    CASE x.t = "none" -> Plain("null")
      [] x.t = "str"  -> StrNode(x.v)
      [] x.t = "int"  -> Plain(x.v)
      [] x.t = "bool" -> Plain(IF x.v = "True" THEN "true" ELSE "false")
      [] x.t = "list" -> YSeq([i \in DOMAIN x.v |-> yaml_dump(x.v[i])])
      [] x.t = "dict" ->
            YMap([n \in {yaml_dump(k) : k \in DOMAIN x.v} |->
                    yaml_dump(x.v[CHOOSE k \in DOMAIN x.v : yaml_dump(k) = n])])

-----------------------------------------------------------------------------
(* YdiffDict *)

NullTokens == {"None", "null", "Null", "NULL"}

\* __empty_dict_vals with the None member left out
InEmptyDictVals_NoNone(val) ==
    \/ val.t = "str" /\ val.v \in {"", "[]", "{}"}
    \/ val.t = "list" /\ Len(val.v) = 0
    \/ val.t = "dict" /\ DOMAIN val.v = {}

\* the class attributes __empty_dict_vals and __empty_list_vals, as the test
\* 'val in <list>' (== against each member)
InEmptyDictVals(val) ==
    \/ val.t = "str" /\ val.v \in {"", "[]", "{}"}
    \/ val.t = "none"
    \/ val.t = "list" /\ Len(val.v) = 0
    \/ val.t = "dict" /\ DOMAIN val.v = {}

\* __empty_list_vals with the '' member of __empty_dict_vals kept in
InEmptyListVals_AsDict(val) ==
    \/ val.t = "str" /\ val.v \in {"", "[]", "{}"}
    \/ val.t = "none"
    \/ val.t = "list" /\ Len(val.v) = 0
    \/ val.t = "dict" /\ DOMAIN val.v = {}

InEmptyListVals(val) ==
    \/ val.t = "str" /\ val.v \in {"[]", "{}"}
    \/ val.t = "none"
    \/ val.t = "list" /\ Len(val.v) = 0
    \/ val.t = "dict" /\ DOMAIN val.v = {}

RECURSIVE normalize(_)
normalize(o) ==
    IF o.t = "str" /\ o.v \in NullTokens THEN PyNone
    ELSE IF o.t = "list" THEN PyList([i \in DOMAIN o.v |-> normalize(o.v[i])])
    ELSE IF o.t = "dict" THEN
        PyDict([k \in {normalize(j) : j \in DOMAIN o.v} |->
                  normalize(o.v[CHOOSE j \in DOMAIN o.v : normalize(j) = k])])
    ELSE PyStr(o.v)

dict_to_yaml_str(o) == yaml_dump(normalize(o))

yaml_str_to_dict(s) ==
    LET o == normalize(yaml_load(s))
    IN  IF o.t = "none" THEN EmptyDict ELSE o

dict2yaml(o) == dict_to_yaml_str(o)

\* a dict argument is dumped first; anything else is YAML text already
yaml2dict(s) ==
    IF s.t = "dict" THEN yaml_str_to_dict(dict_to_yaml_str(s))
    ELSE yaml_str_to_dict(s)

\* str(idx) for the list indices that occur
IndexText == << "0", "1", "2", "3", "4", "5", "6", "7", "8", "9" >>
PyIndex(idx) == PyInt(IndexText[idx + 1])

\* the loop body with the 'elif del_val == src_val' branch left out
IgnoreCase_NoMatch(src_val, del_val, in_empty) ==
    IF IsDictOrList(src_val) /\ IsDictOrList(del_val) THEN "recurse"
    ELSE IF in_empty THEN "drop"
    ELSE "same"

\* the branch the loop body of del_ignore_keys takes on (src_val, del_val):
\* "recurse" into both, "drop" the entry, or "same" (the final else branch);
\* in_empty is the test against the emptiness list of the branch at hand
IgnoreCase(src_val, del_val, in_empty) ==
    IF IsDictOrList(src_val) /\ IsDictOrList(del_val) THEN "recurse"
    ELSE IF in_empty THEN "drop"
    ELSE IF del_val = src_val THEN "drop"
    ELSE "same"

RECURSIVE del_ignore_keys(_, _)
del_ignore_keys(src, del) ==
    IF IsDict(src) /\ IsDict(del) THEN
        LET absent(key) == key \notin DOMAIN del.v
            case(key)   == IgnoreCase(src.v[key], del.v[key], InEmptyDictVals(del.v[key]))
            rec(key)    == del_ignore_keys(src.v[key], del.v[key])
            kept        == {key \in DOMAIN src.v : absent(key) \/ case(key) # "drop"}
        IN  IF \E key \in DOMAIN src.v :
                   ~absent(key) /\ case(key) = "recurse" /\ IsRaised(rec(key))
            THEN Raised("UnboundLocalError")
            ELSE PyDict([key \in kept |->
                           IF absent(key) THEN src.v[key]
                           ELSE IF case(key) = "recurse" THEN rec(key)
                           ELSE src.v[key]])
    ELSE IF IsList(src) /\ IsList(del) /\ Len(del.v) = 1 THEN
        LET del_val   == del.v[1]
            case(i)   == IgnoreCase(src.v[i], del_val, InEmptyListVals(del_val))
            rec(i)    == del_ignore_keys(src.v[i], del_val)
            recursed  == {i \in DOMAIN src.v : case(i) = "recurse"}
        IN  \* 'result_dict[key] = src_val': key is not bound in this branch
            IF \E i \in DOMAIN src.v :
                   \/ case(i) = "same"
                   \/ case(i) = "recurse" /\ IsRaised(rec(i))
            THEN Raised("UnboundLocalError")
            ELSE PyDict([k \in {PyIndex(i - 1) : i \in recursed} |->
                           rec(CHOOSE i \in recursed : PyIndex(i - 1) = k)])
    ELSE EmptyDict

RECURSIVE del_empty_keys(_)
del_empty_keys(o) ==
    IF IsDict(o) THEN
        LET val(key) == IF IsDictOrList(o.v[key]) THEN del_empty_keys(o.v[key])
                        ELSE o.v[key]
        IN  PyDict([key \in {j \in DOMAIN o.v : ~InEmptyDictVals(val(j))} |-> val(key)])
    ELSE IF IsList(o) THEN
        LET val(idx) == IF IsDictOrList(o.v[idx]) THEN del_empty_keys(o.v[idx])
                        ELSE o.v[idx]
        IN  PyList(SelectSeq([idx \in DOMAIN o.v |-> val(idx)],
                             LAMBDA e : ~InEmptyListVals(e)))
    ELSE o

-----------------------------------------------------------------------------
(* Bounds and input alphabets *)

MaxLen      == 2    \* longest list in the inputs of __normalize and del_ignore_keys
MaxEmptyLen == 3    \* longest list in the inputs of del_empty_keys

-----------------------------------------------------------------------------
(* Specification SpecNorm: yaml.load, __normalize and __yaml_str_to_dict    *)
(* applied to a YAML text.                                                 *)

NormScalars ==
    {Plain(s) : s \in {"null", "None", "Null", "NULL", "~", "", "foo", "5", "true"}}
        \cup {Quoted(s) : s \in {"null", "None", ""}}
NormKeys  == {Plain("a"), Plain("null"), Plain("None")}
NormInner == {YSeq(<< n >>) : n \in NormScalars}
                \cup {YMap([k \in {Plain("a")} |-> n]) : n \in NormScalars}
NormTexts ==
    NormScalars
        \cup {YSeq(q) : q \in SeqsUpTo(NormScalars, MaxLen)}
        \cup {YMap(f) : f \in FuncsOn(NormKeys, NormScalars)}
        \cup {YSeq(<< n >>) : n \in NormInner}
        \cup {YMap([k \in {Plain("a")} |-> n]) : n \in NormInner}

NormUnset  == string = Unset /\ obj = Unset /\ once = Unset /\ twice = Unset /\ decoded = Unset
PruneUnset == src_dict = Unset /\ del_dict = Unset /\ result_dict = Unset /\ result_again = Unset
EmptyUnset == empty_obj = Unset /\ empty_ret = Unset
MainUnset  == /\ params = NoParams /\ source = Unset /\ target = Unset
              /\ ignore_keys = Unset /\ ignore_empty = FALSE /\ result = NoResult

InitNorm ==
    /\ pc = "norm_start"
    /\ string \in NormTexts
    /\ obj = Unset /\ once = Unset /\ twice = Unset /\ decoded = Unset
    /\ PruneUnset /\ EmptyUnset /\ MainUnset

\* obj = yaml.load(string)
YamlLoad ==
    /\ pc = "norm_start"
    /\ obj' = yaml_load(string)
    /\ pc' = "loaded"
    /\ UNCHANGED << string, once, twice, decoded, pruneVars, emptyVars, mainVars >>

\* obj = self.__normalize(obj)
Normalize ==
    /\ pc = "loaded"
    /\ once' = normalize(obj)
    /\ pc' = "normalized"
    /\ UNCHANGED << string, obj, twice, decoded, pruneVars, emptyVars, mainVars >>

\* __normalize applied to its own result, as dict2yaml does to a decoded value
NormalizeAgain ==
    /\ pc = "normalized"
    /\ twice' = normalize(once)
    /\ pc' = "renormalized"
    /\ UNCHANGED << string, obj, once, decoded, pruneVars, emptyVars, mainVars >>

\* the whole of __yaml_str_to_dict(string)
YamlStrToDict ==
    /\ pc = "renormalized"
    /\ decoded' = yaml_str_to_dict(string)
    /\ pc' = "decoded"
    /\ UNCHANGED << string, obj, once, twice, pruneVars, emptyVars, mainVars >>

NextNorm == YamlLoad \/ Normalize \/ NormalizeAgain \/ YamlStrToDict

SpecNorm == InitNorm /\ [][NextNorm]_vars

-----------------------------------------------------------------------------
(* Specification SpecPrune: del_ignore_keys applied to a normalized value   *)
(* and an ignore value, and once more to its own result.                   *)

PKeys        == {PyStr("a"), PyStr("b")}
SrcLeaves    == {PyNone, PyStr("5"), PyStr("6")}
SrcFlatDicts == {PyDict(f) : f \in FuncsOn(PKeys, SrcLeaves)}
SrcFlatLists == {PyList(q) : q \in SeqsUpTo(SrcLeaves, MaxLen)}
SrcInner     == {PyStr("5"), PyList(<< PyStr("5") >>)}
                    \cup {PyDict(f) : f \in [PKeys -> {PyStr("5"), PyStr("6")}]}
SrcNested    == {PyList(q) : q \in SeqsUpTo(SrcInner, MaxLen)}
                    \cup {PyDict(f) : f \in FuncsOn(PKeys, SrcLeaves \cup SrcInner)}
SrcValues    == SrcLeaves \cup SrcFlatDicts \cup SrcFlatLists \cup SrcNested

OnlyA(val)   == PyDict([k \in {PyStr("a")} |-> val])
DelLeaves    == {PyNone, PyStr(""), PyStr("[]"), PyStr("5")}
DelFlatDicts == {PyDict(f) : f \in FuncsOn(PKeys, DelLeaves)}
DelElems     == {PyNone, PyStr("5"), OnlyA(PyNone), OnlyA(PyStr("5")), PyList(<< PyNone >>)}
DelLists     == {PyList(q) : q \in SeqsUpTo(DelElems, MaxLen)}
DelInner     == {EmptyDict, EmptyList, OnlyA(PyNone),
                 PyList(<< OnlyA(PyNone) >>), PyList(<< PyStr("5") >>)}
DelNested    == {PyDict(f) : f \in FuncsOn(PKeys, DelLeaves \cup DelInner)}
DelValues    == DelLeaves \cup DelFlatDicts \cup DelLists \cup DelNested

InitPrune ==
    /\ pc = "prune_start"
    /\ src_dict \in SrcValues
    /\ del_dict \in DelValues
    /\ result_dict = Unset /\ result_again = Unset
    /\ NormUnset /\ EmptyUnset /\ MainUnset

\* result = del_ignore_keys(src_dict, del_dict)
DelIgnoreKeys ==
    /\ pc = "prune_start"
    /\ result_dict' = del_ignore_keys(src_dict, del_dict)
    /\ pc' = "pruned"
    /\ UNCHANGED << src_dict, del_dict, result_again, normVars, emptyVars, mainVars >>

\* del_ignore_keys(result, del_dict), when the first call returned
DelIgnoreKeysAgain ==
    /\ pc = "pruned"
    /\ ~IsRaised(result_dict)
    /\ result_again' = del_ignore_keys(result_dict, del_dict)
    /\ pc' = "pruned_again"
    /\ UNCHANGED << src_dict, del_dict, result_dict, normVars, emptyVars, mainVars >>

NextPrune == DelIgnoreKeys \/ DelIgnoreKeysAgain

SpecPrune == InitPrune /\ [][NextPrune]_vars

-----------------------------------------------------------------------------
(* Specification SpecEmpty: del_empty_keys applied to a normalized value.   *)

EmptyLeaves == {PyNone, PyStr(""), PyStr("[]"), PyStr("x"), PyStr("y")}
EmptyInner  == {EmptyList, EmptyDict, PyList(<< PyStr("") >>), PyList(<< PyNone >>),
                OnlyA(PyStr("")), OnlyA(PyStr("x"))}
EmptyElems  == EmptyLeaves \cup EmptyInner
EmptyValues == EmptyLeaves
                  \cup {PyList(q) : q \in SeqsUpTo(EmptyElems, MaxEmptyLen)}
                  \cup {PyDict(f) : f \in FuncsOn(PKeys, EmptyElems)}

InitEmpty ==
    /\ pc = "empty_start"
    /\ empty_obj \in EmptyValues
    /\ empty_ret = Unset
    /\ NormUnset /\ PruneUnset /\ MainUnset

\* ret = del_empty_keys(obj)
DelEmptyKeys ==
    /\ pc = "empty_start"
    /\ empty_ret' = del_empty_keys(empty_obj)
    /\ pc' = "emptied"
    /\ UNCHANGED << empty_obj, normVars, pruneVars, mainVars >>

NextEmpty == DelEmptyKeys

SpecEmpty == InitEmpty /\ [][NextEmpty]_vars

-----------------------------------------------------------------------------
(* Specification SpecMain: main() on a source text, a target text, the      *)
(* diff_ignore_keys dict (argument_spec type 'dict') and diff_ignore_empty. *)

YOnly(k, n)   == YMap([j \in {Plain(k)} |-> n])
YEmptyMap     == YMap([j \in {} |-> Plain("")])
MainKeys      == {Plain("a"), Plain("b")}
SourceValues  == {Plain("x"), YOnly("c", Plain("x")), YOnly("c", Plain("y"))}
SourceTexts   == {Plain("foo"), Plain("bar"), Plain(""), YEmptyMap}
                    \cup {YMap(f) : f \in FuncsOn(MainKeys, SourceValues)}
TargetValues  == {Plain("x"), Plain("null"), Plain("None"), Quoted(""),
                  YOnly("c", Plain("x")), YOnly("c", Plain("y")), YOnly("c", Quoted("")),
                  YEmptyMap, YSeq(<< >>), YSeq(<< Quoted("") >>), YSeq(<< Plain("x") >>)}
TargetTexts   == {Plain("foo"), Plain("bar"), Plain("")}
                    \cup {YMap(f) : f \in FuncsOn(MainKeys, TargetValues)}
IgnoreDicts   == {EmptyDict,
                  PyDict([k \in {PyStr("b")} |-> PyNone]),
                  PyDict([k \in {PyStr("b")} |-> PyDict([j \in {PyStr("c")} |-> PyNone])]),
                  PyDict([k \in {PyStr("a"), PyStr("b")} |->
                            IF k = PyStr("a") THEN PyNone
                            ELSE PyDict([j \in {PyStr("c")} |-> PyNone])]),
                  PyDict([k \in {PyStr("b")} |-> PyStr("x")]),
                  PyDict([k \in {PyStr("b")} |-> PyList(<< PyStr("y") >>)])}

InitMain ==
    /\ pc = "main_start"
    /\ params \in [source : SourceTexts, target : TargetTexts,
                   diff_ignore_keys : IgnoreDicts, diff_ignore_empty : BOOLEAN]
    /\ source = Unset /\ target = Unset /\ ignore_keys = Unset
    /\ ignore_empty = FALSE /\ result = NoResult
    /\ NormUnset /\ PruneUnset /\ EmptyUnset

\* lines 591-594: retrieve module inputs (source_type and target_type 'string')
EvalInput ==
    /\ pc = "main_start"
    /\ source' = params.source
    /\ target' = params.target
    /\ ignore_keys' = params.diff_ignore_keys
    /\ ignore_empty' = params.diff_ignore_empty
    /\ pc' = "inputs"
    /\ UNCHANGED << params, result, normVars, pruneVars, emptyVars >>

\* lines 597-599: convert to normalized dicts
ConvertToDicts ==
    /\ pc = "inputs"
    /\ ignore_keys' = yaml2dict(ignore_keys)
    /\ source' = yaml2dict(source)
    /\ target' = yaml2dict(target)
    /\ pc' = "dicts"
    /\ UNCHANGED << params, ignore_empty, result, normVars, pruneVars, emptyVars >>

\* lines 604-605: remove ignored keys; an exception ends the module run
RemoveIgnoredKeys ==
    /\ pc = "dicts"
    /\ source' = del_ignore_keys(source, ignore_keys)
    /\ target' = IF IsRaised(source') THEN target
                 ELSE del_ignore_keys(target, ignore_keys)
    /\ pc' = IF IsRaised(source') \/ IsRaised(target') THEN "crashed" ELSE "ignored"
    /\ UNCHANGED << params, ignore_keys, ignore_empty, result,
                    normVars, pruneVars, emptyVars >>

\* lines 608-610: remove empty yaml keys, on the target only
RemoveEmptyKeys ==
    /\ pc = "ignored"
    /\ target' = IF ignore_empty THEN del_empty_keys(target) ELSE target
    /\ pc' = "emptied_target"
    /\ UNCHANGED << params, source, ignore_keys, ignore_empty, result,
                    normVars, pruneVars, emptyVars >>

\* lines 613-614: convert back to string
ConvertToStrings ==
    /\ pc = "emptied_target"
    /\ source' = dict2yaml(source)
    /\ target' = dict2yaml(target)
    /\ pc' = "strings"
    /\ UNCHANGED << params, ignore_keys, ignore_empty, result,
                    normVars, pruneVars, emptyVars >>

\* lines 617-631: the diff, 'changed' and module.exit_json
ExitJson ==
    /\ pc = "strings"
    /\ result' = [changed |-> (source # target), before |-> target, after |-> source]
    /\ pc' = "done"
    /\ UNCHANGED << params, source, target, ignore_keys, ignore_empty,
                    normVars, pruneVars, emptyVars >>

NextMain == \/ EvalInput \/ ConvertToDicts \/ RemoveIgnoredKeys
            \/ RemoveEmptyKeys \/ ConvertToStrings \/ ExitJson

SpecMain == InitMain /\ [][NextMain]_vars

-----------------------------------------------------------------------------
(* Claims on SpecNorm *)

\* C9 (as claimed): normalization is idempotent: for every value x that
\* yaml.load returns, normalize(normalize(x)) equals normalize(x).
C9_NormalizeIdempotent ==
    pc \in {"renormalized", "decoded"} => twice = once

IsScalarNode(node) == node.t \in {"plain", "quoted"}

\* every leaf of the text whose textual form is a null token holds None at the
\* same position of the decoded value
RECURSIVE NullLeavesAreNone(_, _)
NullLeavesAreNone(node, val) ==
    CASE IsScalarNode(node) -> (node.v \in NullTokens => val = PyNone)
      [] node.t = "seq" ->
            /\ IsList(val) /\ Len(val.v) = Len(node.v)
            /\ \A i \in DOMAIN node.v : NullLeavesAreNone(node.v[i], val.v[i])
      [] node.t = "map" ->
            /\ IsDict(val)
            /\ \A n \in DOMAIN node.v :
                  /\ normalize(yaml_load(n)) \in DOMAIN val.v
                  /\ NullLeavesAreNone(node.v[n], val.v[normalize(yaml_load(n))])

\* C10 (as claimed): null-token closure: in a decoded document a leaf written
\* as null or as None, or any leaf whose text is one of "None", "null",
\* "Null", "NULL", is None at that position, never the literal string.
C10_NullTokenClosure ==
    (pc = "decoded" /\ ~IsScalarNode(string)) => NullLeavesAreNone(string, decoded)

\* C11 (as claimed): a text that is empty, only whitespace or read by the
\* parser as no value (yaml.load returns None) decodes to the empty mapping,
\* never to Null and never to a scalar.
C11_EmptyTextDecodesToMapping ==
    (pc = "decoded" /\ obj = PyNone) => decoded = EmptyDict

-----------------------------------------------------------------------------
(* Claims on SpecPrune *)

IsScalarOrNone(x) == x.t \in {"str", "none"}

\* the empty values the specification names: Null, the empty scalar, the
\* empty sequence, the empty mapping
IsNamedEmpty(x) ==
    \/ x.t = "none"
    \/ x.t = "str" /\ x.v = ""
    \/ x.t = "list" /\ Len(x.v) = 0
    \/ x.t = "dict" /\ DOMAIN x.v = {}

\* the same, with the scalars "[]" and "{}" that __empty_dict_vals also lists
IsListedEmpty(x) == IsNamedEmpty(x) \/ (x.t = "str" /\ x.v \in {"[]", "{}"})

RECURSIVE HoldsNoSequence(_)
HoldsNoSequence(x) ==
    /\ x.t # "list"
    /\ x.t = "dict" => \A k \in DOMAIN x.v : HoldsNoSequence(x.v[k])

\* the entry policy on the scalar-valued keys of src, for a notion of empty
ScalarKeysPruned(src, spec, res, Empty(_)) ==
    /\ IsDict(res)
    /\ DOMAIN res.v \subseteq DOMAIN src.v
    /\ \A k \in DOMAIN src.v :
          IsScalarOrNone(src.v[k]) =>
              /\ k \in DOMAIN res.v <=>
                    \/ k \notin DOMAIN spec.v
                    \/ ~Empty(spec.v[k]) /\ spec.v[k] # src.v[k]
              /\ k \in DOMAIN res.v => res.v[k] = src.v[k]

MappingPair == /\ pc \in {"pruned", "pruned_again"}
               /\ IsDict(src_dict) /\ IsDict(del_dict)
               /\ HoldsNoSequence(src_dict)

SequencePair == /\ pc \in {"pruned", "pruned_again"}
                /\ IsList(src_dict) /\ IsList(del_dict) /\ Len(del_dict.v) = 1

\* what the claim says of one element under the pattern: TRUE when it stays
StaysUnderPattern(src_val, pattern) ==
    \/ IsDictOrList(src_val) /\ IsDictOrList(pattern)
    \/ ~IsNamedEmpty(pattern) /\ pattern # src_val

\* C4 (as claimed): on Sequence x single-element Sequence the result is the
\* Sequence of the elements that stay, in their order, container elements
\* pruned recursively by the pattern, the others as they were.
C4_SequencePattern ==
    SequencePair =>
        LET pattern == del_dict.v[1]
            pruned  == [i \in DOMAIN src_dict.v |->
                          IF IsDictOrList(src_dict.v[i]) /\ IsDictOrList(pattern)
                          THEN del_ignore_keys(src_dict.v[i], pattern)
                          ELSE src_dict.v[i]]
            stays   == {i \in DOMAIN src_dict.v : StaysUnderPattern(src_dict.v[i], pattern)}
        IN  /\ IsList(result_dict)
            /\ Len(result_dict.v) = Cardinality(stays)
            /\ \A j \in DOMAIN result_dict.v :
                  \E i \in stays : /\ Cardinality({h \in stays : h <= i}) = j
                                   /\ result_dict.v[j] = pruned[i]

\* C5 (as claimed): for any pairing of shapes other than Mapping x Mapping and
\* Sequence x single-element Sequence the result is src, unchanged.
C5_OtherPairingsUnchanged ==
    ( /\ pc \in {"pruned", "pruned_again"}
      /\ ~(IsDict(src_dict) /\ IsDict(del_dict))
      /\ ~(IsList(src_dict) /\ IsList(del_dict) /\ Len(del_dict.v) = 1) )
        => result_dict = src_dict

\* C8 (as claimed): pruning is idempotent: pruning the result once more by the
\* same spec gives the result again.
C8_PruneIdempotent ==
    pc = "pruned_again" => result_again = result_dict

-----------------------------------------------------------------------------
(* Claims on SpecEmpty *)

\* the elements of a list after each was pruned itself
PrunedElements(o) ==
    [i \in DOMAIN o.v |-> IF IsDictOrList(o.v[i]) THEN del_empty_keys(o.v[i]) ELSE o.v[i]]

IsNoneOrEmptyContainer(x) ==
    \/ x.t = "none"
    \/ x.t = "list" /\ Len(x.v) = 0
    \/ x.t = "dict" /\ DOMAIN x.v = {}

IsBracketText(x) == x.t = "str" /\ x.v \in {"[]", "{}"}

\* res holds, in their order, exactly the pruned elements of o that are not Removed
KeepsAllBut(o, res, Removed(_)) ==
    LET pruned == PrunedElements(o)
        stays  == {i \in DOMAIN pruned : ~Removed(pruned[i])}
    IN  /\ IsList(res)
        /\ Len(res.v) = Cardinality(stays)
        /\ \A i \in stays : res.v[Cardinality({h \in stays : h <= i})] = pruned[i]

-----------------------------------------------------------------------------
(* Claims on SpecMain *)

\* C1 (as claimed): two scalar documents with different text, no ignore keys
\* and diff_ignore_empty off: changed is true, before is the encoding of the
\* target scalar and after the encoding of the source scalar.
C1_ScalarsDiffer ==
    ( /\ pc = "done"
      /\ yaml_load(params.source).t = "str" /\ yaml_load(params.target).t = "str"
      /\ params.source.v # params.target.v
      /\ params.diff_ignore_keys = EmptyDict /\ ~params.diff_ignore_empty )
        => /\ result.changed
           /\ result.before = yaml_dump(normalize(yaml_load(params.target)))
           /\ result.after = yaml_dump(normalize(yaml_load(params.source)))

\* an ignore dict made of key paths that end in Null
RECURSIVE IsNullPathSpec(_)
IsNullPathSpec(spec) ==
    /\ IsDict(spec) /\ DOMAIN spec.v # {}
    /\ \A k \in DOMAIN spec.v : spec.v[k] = PyNone \/ IsNullPathSpec(spec.v[k])

\* s and t are identical but for what is stored at the Null-ended paths of spec
RECURSIVE SameButIgnored(_, _, _)
SameButIgnored(s, t, spec) ==
    IF IsDict(s) /\ IsDict(t) /\ IsDict(spec) THEN
        /\ DOMAIN s.v = DOMAIN t.v
        /\ \A k \in DOMAIN s.v :
              IF k \in DOMAIN spec.v
              THEN spec.v[k] = PyNone \/ SameButIgnored(s.v[k], t.v[k], spec.v[k])
              ELSE s.v[k] = t.v[k]
    ELSE s = t

\* the text holds a key at a Null-ended path of spec
RECURSIVE HoldsIgnoredKey(_, _)
HoldsIgnoredKey(text, spec) ==
    /\ text.t = "map" /\ IsDict(spec)
    /\ \E k \in DOMAIN spec.v :
          /\ yaml_dump(k) \in DOMAIN text.v
          /\ \/ spec.v[k] = PyNone
             \/ HoldsIgnoredKey(text.v[yaml_dump(k)], spec.v[k])

IgnoredPathsCase ==
    /\ IsNullPathSpec(params.diff_ignore_keys)
    /\ IsDict(yaml_load(params.source)) /\ IsDict(yaml_load(params.target))
    /\ SameButIgnored(yaml_load(params.source), yaml_load(params.target),
                      params.diff_ignore_keys)

IgnoredPathsPruned ==
    /\ pc # "crashed"
    /\ pc = "done" =>
          /\ ~result.changed
          /\ ~HoldsIgnoredKey(result.before, params.diff_ignore_keys)
          /\ ~HoldsIgnoredKey(result.after, params.diff_ignore_keys)

\* C2 (as claimed): source and target mappings that are identical except for
\* the values at the key paths the ignore dict ends in Null: the paths are
\* pruned from both sides, changed is false and neither before nor after holds
\* an ignored key.
C2_IgnoredPathsAnyMode ==
    IgnoredPathsCase => IgnoredPathsPruned

\* C2 (amended): the same with diff_ignore_empty off.
C2_IgnoredPathsPruned ==
    (IgnoredPathsCase /\ ~params.diff_ignore_empty) => IgnoredPathsPruned

\* C2 witness: a finished run without diff_ignore_empty on a source and a
\* target that hold different values at a nested ignored path.
C2_Witness ==
    /\ pc = "done" /\ IgnoredPathsCase /\ ~params.diff_ignore_empty
    /\ yaml_load(params.source) # yaml_load(params.target)
    /\ HoldsIgnoredKey(params.source, params.diff_ignore_keys)
    /\ HoldsIgnoredKey(params.target, params.diff_ignore_keys)
    /\ \E k \in DOMAIN params.diff_ignore_keys.v : IsDict(params.diff_ignore_keys.v[k])
    /\ ~result.changed

\* a value of the target text that is empty: Null, the empty string, an empty
\* sequence or mapping, or a container that is empty once its children are pruned
RECURSIVE IsEmptyInMapping(_)
RECURSIVE IsEmptyInSequence(_)
IsEmptyInMapping(node) ==
    CASE node.t = "plain"  -> Resolve(node.v) = PyNone \/ node.v \in NullTokens
      [] node.t = "quoted" -> node.v = ""
      [] node.t = "seq"    -> \A i \in DOMAIN node.v : IsEmptyInSequence(node.v[i])
      [] node.t = "map"    -> \A n \in DOMAIN node.v : IsEmptyInMapping(node.v[n])
IsEmptyInSequence(node) ==
    CASE node.t = "plain"  -> Resolve(node.v) = PyNone \/ node.v \in NullTokens
      [] node.t = "quoted" -> FALSE
      [] node.t = "seq"    -> \A i \in DOMAIN node.v : IsEmptyInSequence(node.v[i])
      [] node.t = "map"    -> \A n \in DOMAIN node.v : IsEmptyInMapping(node.v[n])

\* C6 (as claimed): with diff_ignore_empty on and no ignore keys, a source
\* that decodes to the empty mapping and a target mapping whose values are all
\* empty: the target is pruned to the empty mapping and changed is false.
C6_EmptyTargetPruned ==
    ( /\ pc = "done"
      /\ params.diff_ignore_empty /\ params.diff_ignore_keys = EmptyDict
      /\ yaml_str_to_dict(params.source) = EmptyDict
      /\ params.target.t = "map"
      /\ \A n \in DOMAIN params.target.v : IsEmptyInMapping(params.target.v[n]) )
        => /\ result.before = yaml_dump(EmptyDict)
           /\ ~result.changed

=============================================================================
